---- MODULE Spec2Model ----
(***************************************************************************)
(* Model of packages/micropdf/scripts/generate_headers.py: the conversion  *)
(* of Rust FFI declarations into C headers.                                *)
(*                                                                         *)
(* Python strings are TLA+ strings; a character is a string of length one  *)
(* (Slice(s, i, i)).  Three specifications share the variables:           *)
(*   SpecTypes    convert_rust_type_to_c on a bounded set of types,        *)
(*   SpecExtract  extract_ffi_functions scanning one source file,          *)
(*   SpecMain     main over a bounded source tree.                         *)
(***************************************************************************)
EXTENDS Integers, Sequences, FiniteSets, TLC

VARIABLES
    pc,             \* position of the run
    ty,             \* SpecTypes: the type expression given to the converter
    c_type,         \* SpecTypes: convert_rust_type_to_c(ty)
    c_type2,        \* SpecTypes: the converter applied to c_type
    lines,          \* SpecExtract: the lines of the file (extract_ffi_functions)
    i,              \* SpecExtract: loop index of extract_ffi_functions
    functions,      \* SpecExtract: descriptors collected so far
    rust_sig,       \* SpecExtract: last signature the extractor returned
    func_info,      \* SpecExtract: what the parser made of rust_sig
    tree,           \* SpecMain: the source tree under src/ffi
    reversed,       \* SpecMain: whether directory listings come in descending order
    todo,           \* SpecMain: what the current loop of main has left
    all_functions,  \* SpecMain: the dict module name -> descriptors, in insertion order
    written         \* SpecMain: path -> content of the files written

vars == <<pc, ty, c_type, c_type2, lines, i, functions, rust_sig, func_info,
          tree, reversed, todo, all_functions, written>>

typeVars == <<ty, c_type, c_type2>>

extractVars == <<lines, i, functions, rust_sig, func_info>>

mainVars == <<tree, reversed, todo, all_functions, written>>

Empty == [x \in {} |-> x]

None == [none |-> TRUE]

----------------------------------------------------------------------------
(* Python str operations.                                                  *)

\* s[a-1:b]: a slice clamps to the string
Slice(s, a, b) ==
    IF a > b \/ a > Len(s) THEN "" ELSE SubSeq(s, a, IF b > Len(s) THEN Len(s) ELSE b)

Char(s, k) == Slice(s, k, k)

IsSpace(c) == c = " "

WordChars == "abcdefghijklmnopqrstuvwxyzABCDEFGHIJKLMNOPQRSTUVWXYZ0123456789_"

\* p in s (p non-empty)
Contains(s, p) ==
    \E k \in 1..(Len(s) - Len(p) + 1) : Slice(s, k, k + Len(p) - 1) = p

\* regex \w
IsWord(c) == Len(c) = 1 /\ Contains(WordChars, c)

StartsWith(s, p) == Len(s) >= Len(p) /\ Slice(s, 1, Len(p)) = p

EndsWith(s, p) == Len(s) >= Len(p) /\ Slice(s, Len(s) - Len(p) + 1, Len(s)) = p

\* s.find(p, from): least index >= from where p occurs, 0 when there is none
RECURSIVE Find(_, _, _)
Find(s, p, from) ==
    IF from + Len(p) - 1 > Len(s) THEN 0
    ELSE IF Slice(s, from, from + Len(p) - 1) = p THEN from
    ELSE Find(s, p, from + 1)

RECURSIVE LStrip(_)
LStrip(s) ==
    IF Len(s) > 0 /\ IsSpace(Char(s, 1)) THEN LStrip(Slice(s, 2, Len(s))) ELSE s

RECURSIVE RStrip(_)
RStrip(s) ==
    IF Len(s) > 0 /\ IsSpace(Char(s, Len(s))) THEN RStrip(Slice(s, 1, Len(s) - 1)) ELSE s

\* s.strip()
Strip(s) == RStrip(LStrip(s))

\* s.count(c) for a single character c
RECURSIVE Count(_, _)
Count(s, c) ==
    IF Len(s) = 0 THEN 0
    ELSE (IF Char(s, 1) = c THEN 1 ELSE 0) + Count(Slice(s, 2, Len(s)), c)

\* s.split('::')[-1]: split consumes separators from the left
RECURSIVE LastSegment(_)
LastSegment(s) ==
    LET k == Find(s, "::", 1)
    IN  IF k = 0 THEN s ELSE LastSegment(Slice(s, k + 2, Len(s)))

\* sep.join(seq)
RECURSIVE Join(_, _)
Join(sep, seq) ==
    IF Len(seq) = 0 THEN ""
    ELSE IF Len(seq) = 1 THEN seq[1]
    ELSE seq[1] \o sep \o Join(sep, Tail(seq))

----------------------------------------------------------------------------
(* TypeConverter.                                                          *)

TYPE_MAP ==
    ("i32" :> "int32_t") @@ ("u32" :> "uint32_t") @@ ("i64" :> "int64_t") @@
    ("u64" :> "uint64_t") @@ ("f32" :> "float") @@ ("f64" :> "double") @@
    ("bool" :> "bool") @@ ("usize" :> "size_t") @@ ("isize" :> "intptr_t") @@
    ("()" :> "void") @@ ("c_char" :> "char") @@ ("c_int" :> "int") @@
    ("c_void" :> "void") @@ ("c_float" :> "float") @@ ("c_double" :> "double")

\* The converter with the Handle rule tried before the pointer rules.
RECURSIVE convert_handle_first(_)
convert_handle_first(rust_type0) ==
    LET rust_type == Strip(rust_type0)
    IN  IF rust_type \in DOMAIN TYPE_MAP THEN TYPE_MAP[rust_type]
        ELSE IF Contains(rust_type, "Handle") THEN "int32_t"
        ELSE IF StartsWith(rust_type, "*const ") THEN
            LET inner0 == Strip(Slice(rust_type, 8, Len(rust_type)))
                inner1 == IF Contains(inner0, "::") /\ ~StartsWith(inner0, "*")
                          THEN LastSegment(inner0) ELSE inner0
                inner  == IF inner1 = "c_char" THEN "char" ELSE inner1
                inner_c == convert_handle_first(inner)
            IN  IF inner_c = "char" THEN "const char *"
                ELSE inner_c \o " const *"
        ELSE IF StartsWith(rust_type, "*mut ") THEN
            convert_handle_first(Strip(Slice(rust_type, 6, Len(rust_type)))) \o " *"
        ELSE IF StartsWith(rust_type, "fz_") \/ StartsWith(rust_type, "pdf_") THEN rust_type
        ELSE IF Contains(rust_type, "::") THEN LastSegment(rust_type)
        ELSE rust_type

RECURSIVE convert_rust_type_to_c(_)
convert_rust_type_to_c(rust_type0) ==
    LET rust_type == Strip(rust_type0)
    IN  IF rust_type \in DOMAIN TYPE_MAP THEN TYPE_MAP[rust_type]
        ELSE IF StartsWith(rust_type, "*const ") THEN
            LET inner0 == Strip(Slice(rust_type, 8, Len(rust_type)))
                inner1 == IF Contains(inner0, "::") /\ ~StartsWith(inner0, "*")
                          THEN LastSegment(inner0) ELSE inner0
                inner  == IF inner1 = "c_char" THEN "char" ELSE inner1
                inner_c == convert_rust_type_to_c(inner)
            IN  IF inner_c = "char" THEN "const char *"
                ELSE inner_c \o " const *"
        ELSE IF StartsWith(rust_type, "*mut ") THEN
            LET inner == Strip(Slice(rust_type, 6, Len(rust_type)))
                inner_c == convert_rust_type_to_c(inner)
            IN  inner_c \o " *"
        ELSE IF Contains(rust_type, "Handle") THEN "int32_t"
        ELSE IF StartsWith(rust_type, "fz_") \/ StartsWith(rust_type, "pdf_") THEN rust_type
        ELSE IF Contains(rust_type, "::") THEN LastSegment(rust_type)
        ELSE rust_type

----------------------------------------------------------------------------
(* SpecTypes: the converter applied once and twice to a type expression    *)
(* built from pointer qualifiers, an optional path prefix and a type name. *)

MaxPtrDepth == 2

Qualifiers == {"*const ", "*mut "}

PathPrefixes == {"", "std::ffi::", "a::b::"}

TypeNames == {"i32", "c_char", "c_void", "()", "usize", "Foo", "FooHandle",
              "Handle", "fz_rect", "pdf_obj"}

QualSeqs == UNION {[1..n -> Qualifiers] : n \in 0..MaxPtrDepth}

TypeShapes == [quals : QualSeqs, path : PathPrefixes, name : TypeNames]

\* the text of a type expression
RustType(t) == Join("", t.quals) \o t.path \o t.name

InitTypes ==
    /\ pc = "start"
    /\ ty \in TypeShapes
    /\ c_type = "" /\ c_type2 = ""
    /\ lines = <<>> /\ i = 0 /\ functions = <<>> /\ rust_sig = "" /\ func_info = None
    /\ tree = None /\ reversed = FALSE /\ todo = <<>>
    /\ all_functions = <<>> /\ written = Empty

Convert ==
    /\ pc = "start"
    /\ c_type' = convert_rust_type_to_c(RustType(ty))
    /\ pc' = "once"
    /\ UNCHANGED <<ty, c_type2, extractVars, mainVars>>

ConvertAgain ==
    /\ pc = "once"
    /\ c_type2' = convert_rust_type_to_c(c_type)
    /\ pc' = "twice"
    /\ UNCHANGED <<ty, c_type, extractVars, mainVars>>

NextTypes == Convert \/ ConvertAgain

SpecTypes == InitTypes /\ [][NextTypes]_vars

----------------------------------------------------------------------------
(* SignatureExtractor.  Indices are Python's (from 0): line idx of the     *)
(* file is ls[idx + 1].                                                    *)

RECURSIVE ExtractLoop(_, _, _, _, _)
ExtractLoop(ls, idx, sig_lines, paren_depth, found_fn) ==
    IF idx >= Len(ls) THEN [sig |-> Join(" ", sig_lines), idx |-> idx]
    ELSE
        LET line == Strip(ls[idx + 1])
        IN  IF line = "" \/ StartsWith(line, "//")
            THEN ExtractLoop(ls, idx + 1, sig_lines, paren_depth, found_fn)
            ELSE
                LET found == found_fn \/ (Contains(line, "pub") /\ Contains(line, "extern")
                                          /\ Contains(line, "fn "))
                    sl    == Append(sig_lines, line)
                    depth == paren_depth + Count(line, "(") - Count(line, ")")
                IN  IF ~found
                    THEN ExtractLoop(ls, idx + 1, sig_lines, paren_depth, found)
                    ELSE IF depth = 0 /\ (Contains(line, "{") \/ EndsWith(line, ";"))
                    THEN [sig |-> Join(" ", sl), idx |-> idx]
                    ELSE IF depth = 0 /\ ~Contains(line, "->")
                    THEN [sig |-> Join(" ", sl), idx |-> idx]
                    ELSE ExtractLoop(ls, idx + 1, sl, depth, found)

extract_function_signature(ls, start_idx) == ExtractLoop(ls, start_idx, <<>>, 0, FALSE)

----------------------------------------------------------------------------
(* SignatureParser.                                                        *)

\* least index >= from that holds no whitespace (Len(s) + 1 at the end)
RECURSIVE SkipSpaces(_, _)
SkipSpaces(s, from) ==
    IF from <= Len(s) /\ IsSpace(Char(s, from)) THEN SkipSpaces(s, from + 1) ELSE from

\* the run of \w characters that starts at from
RECURSIVE TakeWord(_, _)
TakeWord(s, from) ==
    IF from <= Len(s) /\ IsWord(Char(s, from))
    THEN Char(s, from) \o TakeWord(s, from + 1) ELSE ""

\* a regex search: whether it matched, and group 1 of the leftmost match
NoMatch == [matched |-> FALSE, group |-> ""]

Match(g) == [matched |-> TRUE, group |-> g]

\* re.search(r'fn\s+(\w+)', s)
FnMatch(s) ==
    LET hits == {k \in 1..Len(s) :
                    /\ Slice(s, k, k + 1) = "fn"
                    /\ k + 2 <= Len(s) /\ IsSpace(Char(s, k + 2))
                    /\ TakeWord(s, SkipSpaces(s, k + 2)) # ""}
    IN  IF hits = {} THEN NoMatch
        ELSE LET k == CHOOSE h \in hits : \A g \in hits : h <= g
             IN  Match(TakeWord(s, SkipSpaces(s, k + 2)))

\* what the parameter regex needs after the closing parenthesis: \s*(?:->|{|;)
ClosesParams(s, q) ==
    LET j == SkipSpaces(s, q + 1)
    IN  Slice(s, j, j + 1) = "->" \/ Char(s, j) = "{" \/ Char(s, j) = ";"

\* re.search(r'\((.*?)\)\s*(?:->|{|;)', s, re.DOTALL): the lazy group ends at
\* the first closing parenthesis that works
ParamsMatch(s) ==
    LET ends(p) == {q \in (p + 1)..Len(s) : Char(s, q) = ")" /\ ClosesParams(s, q)}
        opens   == {p \in 1..Len(s) : Char(s, p) = "(" /\ ends(p) # {}}
    IN  IF opens = {} THEN NoMatch
        ELSE LET p == CHOOSE o \in opens : \A g \in opens : o <= g
                 q == CHOOSE e \in ends(p) : \A g \in ends(p) : e <= g
             IN  Match(Slice(s, p + 1, q - 1))

\* least index >= from of a character of "{;" (Len(s) + 1 when there is none)
RECURSIVE BraceOrSemi(_, _)
BraceOrSemi(s, from) ==
    IF from > Len(s) \/ Char(s, from) = "{" \/ Char(s, from) = ";" THEN from
    ELSE BraceOrSemi(s, from + 1)

\* re.search(r'->\s*([^{;]+)', s): group 1 of the leftmost match, stripped;
\* '()' without a match.  The group needs one character, so an arrow directly
\* followed by "{", ";" or the end does not match.
RetType(s) ==
    LET arrows == {a \in 1..Len(s) : Slice(s, a, a + 1) = "->" /\ BraceOrSemi(s, a + 2) > a + 2}
    IN  IF arrows = {} THEN "()"
        ELSE LET a == CHOOSE h \in arrows : \A g \in arrows : h <= g
             IN  Strip(Slice(s, a + 2, BraceOrSemi(s, a + 2) - 1))

\* the loop over params_str + ',': split on commas at depth zero
RECURSIVE SplitLoop(_, _, _, _, _)
SplitLoop(s, k, depth, current, params) ==
    IF k > Len(s) THEN params
    ELSE
        LET char == Char(s, k)
        IN  IF Contains("<([", char)
            THEN SplitLoop(s, k + 1, depth + 1, current \o char, params)
            ELSE IF Contains(">)]", char)
            THEN SplitLoop(s, k + 1, depth - 1, current \o char, params)
            ELSE IF char = "," /\ depth = 0
            THEN SplitLoop(s, k + 1, depth, "", Append(params, Strip(current)))
            ELSE SplitLoop(s, k + 1, depth, current \o char, params)

SplitParams(params_str) == SplitLoop(params_str \o ",", 1, 0, "", <<>>)

\* the loop over params: one "<c type> <name>" per parameter with a colon
RECURSIVE ConvertParams(_)
ConvertParams(params) ==
    IF Len(params) = 0 THEN <<>>
    ELSE
        LET param == Head(params)
            colon == Find(param, ":", 1)
        IN  IF param = "" \/ colon = 0 THEN ConvertParams(Tail(params))
            ELSE
                LET param_name == Strip(Slice(param, 1, colon - 1))
                    param_type == Strip(Slice(param, colon + 1, Len(param)))
                IN  <<convert_rust_type_to_c(param_type) \o " " \o param_name>>
                        \o ConvertParams(Tail(params))

\* the list c_params made of params_str
CParamsOf(params_str) ==
    IF params_str = "" THEN <<>> ELSE ConvertParams(SplitParams(params_str))

\* the list c_params of the parser
CParams(rust_sig_) == CParamsOf(Strip(ParamsMatch(rust_sig_).group))

\* c_params_str
CParamsStr(c_params) == IF Len(c_params) > 0 THEN Join(", ", c_params) ELSE "void"

\* the dict the parser returns
Descriptor(fn_name, c_params_str, c_ret_type) ==
    [name        |-> fn_name,
     params      |-> c_params_str,
     return      |-> c_ret_type,
     declaration |-> c_ret_type \o " " \o fn_name \o "(" \o c_params_str \o ");"]

parse_rust_ffi_function(rust_sig_) ==
    IF ~FnMatch(rust_sig_).matched THEN None
    ELSE IF ~ParamsMatch(rust_sig_).matched THEN None
    ELSE Descriptor(FnMatch(rust_sig_).group,
                    CParamsStr(CParams(rust_sig_)),
                    convert_rust_type_to_c(RetType(rust_sig_)))

----------------------------------------------------------------------------
(* SpecExtract: extract_ffi_functions over one file, one step per          *)
(* iteration of its loop.  readlines() keeps each line's newline, which    *)
(* strip() removes; the lines here are without it.                         *)

MaxLines == 4

Markers == {"#[unsafe(no_mangle)]", "#[no_mangle]"}

SourceLines == Markers \cup
    {"",
     "// exported below",
     "pub static COUNT: i32 = 0;",
     "pub extern \"C\" fn reset()",
     "{",
     "pub extern \"C\" fn open_doc(path: *const c_char) -> i32 {",
     "pub extern \"C\" fn set_cb(cb: extern \"C\" fn(i32) -> i32, n: i32) -> i32 {",
     "pub extern \"C\" fn blend(",
     "    a: (i32, i32), h: *mut Handle,",
     ") -> f32;"}

Files == UNION {[1..n -> SourceLines] : n \in 0..MaxLines}

InitExtract ==
    /\ pc = "scan"
    /\ lines \in Files
    /\ i = 0 /\ functions = <<>> /\ rust_sig = "" /\ func_info = None
    /\ ty = None /\ c_type = "" /\ c_type2 = ""
    /\ tree = None /\ reversed = FALSE /\ todo = <<>>
    /\ all_functions = <<>> /\ written = Empty

\* if rust_sig: func_info = parse_rust_ffi_function(rust_sig)
ParseIfAny(sig) == IF sig # "" THEN parse_rust_ffi_function(sig) ELSE None

\* if func_info: functions.append(func_info)
AppendIfParsed(acc, info) == IF info # None THEN Append(acc, info) ELSE acc

\* one iteration of the while loop of extract_ffi_functions
ScanLine ==
    /\ pc = "scan"
    /\ i < Len(lines)
    /\ IF Strip(lines[i + 1]) \in Markers
       THEN /\ rust_sig' = extract_function_signature(lines, i + 1).sig
            /\ func_info' = ParseIfAny(rust_sig')
            /\ functions' = AppendIfParsed(functions, func_info')
            /\ i' = extract_function_signature(lines, i + 1).idx + 1
       ELSE /\ i' = i + 1
            /\ UNCHANGED <<functions, rust_sig, func_info>>
    /\ UNCHANGED <<pc, lines, typeVars, mainVars>>

\* the loop ends and the list is returned
ReturnFunctions ==
    /\ pc = "scan"
    /\ i >= Len(lines)
    /\ pc' = "done"
    /\ UNCHANGED <<typeVars, extractVars, mainVars>>

NextExtract == ScanLine \/ ReturnFunctions

SpecExtract == InitExtract /\ [][NextExtract]_vars

\* extract_ffi_functions as one function of the file's lines
RECURSIVE ExtractFrom(_, _, _)
RECURSIVE ExtractAfter(_, _, _)
ExtractFrom(ls, k, acc) ==
    IF k >= Len(ls) THEN acc
    ELSE IF Strip(ls[k + 1]) \in Markers
    THEN ExtractAfter(ls, extract_function_signature(ls, k + 1), acc)
    ELSE ExtractFrom(ls, k + 1, acc)

\* the rest of the loop once the extractor returned r
ExtractAfter(ls, r, acc) ==
    ExtractFrom(ls, r.idx + 1, AppendIfParsed(acc, ParseIfAny(r.sig)))

extract_ffi_functions(ls) == ExtractFrom(ls, 0, <<>>)

----------------------------------------------------------------------------
(* More of Python: comparison and sorting of strings, case conversion.     *)

\* the characters the model uses, in code point order
AsciiOrder ==
    " !\"#()*,-./0123456789:;<>ABCDEFGHIJKLMNOPQRSTUVWXYZ[]_abcdefghijklmnopqrstuvwxyz{}"

Ord(c) == Find(AsciiOrder, c, 1)

\* a < b
RECURSIVE StrLess(_, _)
StrLess(a, b) ==
    IF Len(b) = 0 THEN FALSE
    ELSE IF Len(a) = 0 THEN TRUE
    ELSE IF Char(a, 1) = Char(b, 1) THEN StrLess(Slice(a, 2, Len(a)), Slice(b, 2, Len(b)))
    ELSE Ord(Char(a, 1)) < Ord(Char(b, 1))

Lowercase == "abcdefghijklmnopqrstuvwxyz"

Uppercase == "ABCDEFGHIJKLMNOPQRSTUVWXYZ"

\* s.upper()
RECURSIVE Upper(_)
Upper(s) ==
    IF Len(s) = 0 THEN ""
    ELSE LET k == Find(Lowercase, Char(s, 1), 1)
         IN  (IF k = 0 THEN Char(s, 1) ELSE Char(Uppercase, k)) \o Upper(Slice(s, 2, Len(s)))

\* s.lower()
RECURSIVE Lower(_)
Lower(s) ==
    IF Len(s) = 0 THEN ""
    ELSE LET k == Find(Uppercase, Char(s, 1), 1)
         IN  (IF k = 0 THEN Char(s, 1) ELSE Char(Lowercase, k)) \o Lower(Slice(s, 2, Len(s)))

\* s.capitalize()
Capitalize(s) == Upper(Char(s, 1)) \o Lower(Slice(s, 2, Len(s)))

\* sorted() is stable: x goes before the first element greater than it
RECURSIVE InsertString(_, _)
InsertString(seq, x) ==
    IF seq = <<>> THEN <<x>>
    ELSE IF StrLess(x, Head(seq)) THEN <<x>> \o seq
    ELSE <<Head(seq)>> \o InsertString(Tail(seq), x)

\* sorted(seq) for a sequence of strings
RECURSIVE SortedStrings(_)
SortedStrings(seq) ==
    IF seq = <<>> THEN <<>>
    ELSE InsertString(SortedStrings(SubSeq(seq, 1, Len(seq) - 1)), seq[Len(seq)])

RECURSIVE InsertByName(_, _)
InsertByName(seq, f) ==
    IF seq = <<>> THEN <<f>>
    ELSE IF StrLess(f.name, Head(seq).name) THEN <<f>> \o seq
    ELSE <<Head(seq)>> \o InsertByName(Tail(seq), f)

\* sorted(functions, key=lambda f: f['name'])
RECURSIVE SortedByName(_)
SortedByName(funcs) ==
    IF funcs = <<>> THEN <<>>
    ELSE InsertByName(SortedByName(SubSeq(funcs, 1, Len(funcs) - 1)), funcs[Len(funcs)])

\* d[key] = value on a dict kept as the sequence of its items
DictSet(d, key, value) ==
    IF \E n \in 1..Len(d) : d[n][1] = key
    THEN [n \in 1..Len(d) |-> IF d[n][1] = key THEN <<key, value>> ELSE d[n]]
    ELSE Append(d, <<key, value>>)

\* list(d.keys())
Keys(d) == [n \in 1..Len(d) |-> d[n][1]]

----------------------------------------------------------------------------
(* The source tree.  A tree maps the paths of its files, <<directory, file *)
(* name>> with "" for src/ffi itself, to their lines.  A directory listing *)
(* (glob, iterdir) comes in the order the file system gives, here          *)
(* ascending or descending by name.                                        *)

RECURSIVE Ascending(_)
Ascending(S) ==
    IF S = {} THEN <<>>
    ELSE LET m == CHOOSE x \in S : \A y \in S : x = y \/ StrLess(x, y)
         IN  <<m>> \o Ascending(S \ {m})

Reverse(seq) == [k \in 1..Len(seq) |-> seq[Len(seq) + 1 - k]]

Listing(S, rev) == IF rev THEN Reverse(Ascending(S)) ELSE Ascending(S)

\* src_dir.glob('*.rs')
GlobTop(t, rev) == Listing({q[2] : q \in {q \in DOMAIN t : q[1] = ""}}, rev)

\* the directories src_dir.iterdir() yields
IterDirs(t, rev) == Listing({q[1] : q \in {q \in DOMAIN t : q[1] # ""}}, rev)

\* sub_dir.glob('**/*.rs')
GlobSub(t, sub_dir, rev) == Listing({q[2] : q \in {q \in DOMAIN t : q[1] = sub_dir}}, rev)

\* the paths of a glob taken in the order the file system gave them
UnsortedPaths(paths) == paths

\* sorted(...) of the paths a glob found
SortedPaths(paths) == SortedStrings(paths)

\* rs_file.stem
Stem(file) == IF EndsWith(file, ".rs") THEN Slice(file, 1, Len(file) - 3) ELSE file

----------------------------------------------------------------------------
(* main and the header generators.                                         *)

fitz_modules ==
    {"geometry", "buffer", "stream", "output", "colorspace", "pixmap", "font", "image",
     "path", "text", "device", "display_list", "link", "archive", "cookie", "context"}

pdf_modules == {"annot", "form", "document", "pdf_object"}

\* if functions: all_functions[module] = functions
StoreFunctions(af, module, funcs) == IF funcs # <<>> THEN DictSet(af, module, funcs) ELSE af

\* the body of the loop over the top-level files
LoadTopFile(af, t, rs_file) ==
    IF Stem(rs_file) \in {"mod", "safe_helpers"} THEN af
    ELSE StoreFunctions(af, Stem(rs_file), extract_ffi_functions(t[<<"", rs_file>>]))

\* functions.extend(funcs) over the files of a subdirectory
RECURSIVE ExtendAll(_, _, _)
ExtendAll(t, sub_dir, files) ==
    IF files = <<>> THEN <<>>
    ELSE extract_ffi_functions(t[<<sub_dir, Head(files)>>]) \o ExtendAll(t, sub_dir, Tail(files))

\* the body of the loop over the subdirectories
LoadSubDir(af, t, sub_dir, rev) ==
    StoreFunctions(af, sub_dir, ExtendAll(t, sub_dir, SortedPaths(GlobSub(t, sub_dir, rev))))

\* the declaration lines of a header
Declarations(funcs) ==
    [k \in 1..Len(funcs) |-> SortedByName(funcs)[k].declaration]

generate_module_header(module_name, funcs, is_pdf) ==
    LET prefix == IF is_pdf THEN "pdf" ELSE "fitz"
    IN  [banner       |-> "MuPDF API Compatible C Header",
         module       |-> module_name,
         guard        |-> "MUPDF_" \o Upper(prefix) \o "_" \o Upper(module_name) \o "_H",
         title        |-> Capitalize(module_name),
         total        |-> Len(funcs),
         declarations |-> Declarations(funcs)]

generate_enhanced_header(module_name, funcs) ==
    [banner       |-> "Enhanced/Extended Functions",
     module       |-> module_name,
     guard        |-> "MICROPDF_" \o Upper(module_name) \o "_H",
     title        |-> Capitalize(module_name),
     total        |-> Len(funcs),
     declarations |-> Declarations(funcs)]

\* is_pdf of main
IsPdf(module, funcs) ==
    module \in pdf_modules \/ \E k \in 1..Len(funcs) : StartsWith(funcs[k].name, "pdf_")

\* subdir of main
SubDirOf(module, funcs) ==
    IF module = "enhanced" THEN "../micropdf"
    ELSE IF IsPdf(module, funcs) THEN "pdf" ELSE "fitz"

\* the body of the loop that writes the module headers
WriteModuleHeader(w, module, funcs) ==
    LET header_content == IF module = "enhanced" THEN generate_enhanced_header(module, funcs)
                          ELSE generate_module_header(module, funcs, IsPdf(module, funcs))
        header_file    == "include/mupdf/" \o SubDirOf(module, funcs) \o "/" \o module \o ".h"
    IN  (header_file :> header_content) @@ w

\* the files generate_master_headers writes
generate_master_headers(all_modules) ==
    LET InFitz(module) == module # "enhanced"
                          /\ (module \in fitz_modules \/ ~(module \in pdf_modules))
        InPdf(module)  == module \in pdf_modules
        fitz == SelectSeq(SortedStrings(all_modules), InFitz)
        pdf  == SelectSeq(SortedStrings(all_modules), InPdf)
    IN  ("include/mupdf/fitz.h" :>
            [guard    |-> "MUPDF_FITZ_H",
             fixed    |-> <<>>,
             includes |-> [k \in 1..Len(fitz) |-> "mupdf/fitz/" \o fitz[k] \o ".h"]])
        @@
        ("include/mupdf/pdf.h" :>
            [guard    |-> "MUPDF_PDF_H",
             fixed    |-> <<"mupdf/fitz.h">>,
             includes |-> [k \in 1..Len(pdf) |-> "mupdf/pdf/" \o pdf[k] \o ".h"]])
        @@
        ("include/mupdf.h" :>
            [guard    |-> "MUPDF_H",
             fixed    |-> <<"mupdf/fitz.h", "mupdf/pdf.h">>,
             includes |-> <<>>])

----------------------------------------------------------------------------
(* SpecMain: a run of main over a source tree of at most MaxFiles files,   *)
(* one step per loop iteration.                                            *)

MaxFiles == 2

Paths == {<<"", "font.rs">>, <<"", "annot.rs">>, <<"", "misc.rs">>, <<"", "enhanced.rs">>,
          <<"", "mod.rs">>, <<"misc", "a.rs">>, <<"misc", "b.rs">>, <<"font", "a.rs">>}

Texts ==
    {<<"#[no_mangle]", "pub extern \"C\" fn fz_drop(h: Handle) {", "}">>,
     <<"#[unsafe(no_mangle)]", "pub extern \"C\" fn fz_drop(h: Handle) -> i32 {", "}">>,
     <<"#[no_mangle]", "pub extern \"C\" fn pdf_count(doc: *const c_char) -> usize;",
       "#[no_mangle]", "pub extern \"C\" fn pdf_close(doc: *const c_char);">>,
     <<"// helpers", "fn helper() {}">>}

Trees == UNION {[S -> Texts] : S \in {S \in SUBSET Paths : Cardinality(S) <= MaxFiles}}

InitMain ==
    /\ pc = "start"
    /\ tree \in Trees
    /\ reversed \in BOOLEAN
    /\ todo = <<>>
    /\ all_functions = <<>> /\ written = Empty
    /\ ty = None /\ c_type = "" /\ c_type2 = ""
    /\ lines = <<>> /\ i = 0 /\ functions = <<>> /\ rust_sig = "" /\ func_info = None

\* main starts: for rs_file in sorted(src_dir.glob('*.rs'))
ListTopFiles ==
    /\ pc = "start"
    /\ pc' = "files"
    /\ todo' = SortedPaths(GlobTop(tree, reversed))
    /\ UNCHANGED <<tree, reversed, all_functions, written, typeVars, extractVars>>

\* one iteration of the loop over the top-level files
ProcessTopFile ==
    /\ pc = "files" /\ todo # <<>>
    /\ all_functions' = LoadTopFile(all_functions, tree, Head(todo))
    /\ todo' = Tail(todo)
    /\ UNCHANGED <<pc, tree, reversed, written, typeVars, extractVars>>

\* the first loop is over: for sub_dir in src_dir.iterdir()
ListSubDirs ==
    /\ pc = "files" /\ todo = <<>>
    /\ pc' = "dirs"
    /\ todo' = IterDirs(tree, reversed)
    /\ UNCHANGED <<tree, reversed, all_functions, written, typeVars, extractVars>>

\* one iteration of the loop over the subdirectories
ProcessSubDir ==
    /\ pc = "dirs" /\ todo # <<>>
    /\ all_functions' = LoadSubDir(all_functions, tree, Head(todo), reversed)
    /\ todo' = Tail(todo)
    /\ UNCHANGED <<pc, tree, reversed, written, typeVars, extractVars>>

\* the second loop is over: for module, functions in all_functions.items()
StartGenerating ==
    /\ pc = "dirs" /\ todo = <<>>
    /\ pc' = "write"
    /\ todo' = all_functions
    /\ UNCHANGED <<tree, reversed, all_functions, written, typeVars, extractVars>>

\* one iteration of the loop that writes the module headers
WriteHeader ==
    /\ pc = "write" /\ todo # <<>>
    /\ written' = WriteModuleHeader(written, Head(todo)[1], Head(todo)[2])
    /\ todo' = Tail(todo)
    /\ UNCHANGED <<pc, tree, reversed, all_functions, typeVars, extractVars>>

\* generate_master_headers(include_dir, list(all_functions.keys()), ...), the end of main
WriteMasterHeaders ==
    /\ pc = "write" /\ todo = <<>>
    /\ written' = generate_master_headers(Keys(all_functions)) @@ written
    /\ pc' = "done"
    /\ UNCHANGED <<tree, reversed, todo, all_functions, typeVars, extractVars>>

NextMain ==
    \/ ListTopFiles \/ ProcessTopFile \/ ListSubDirs \/ ProcessSubDir
    \/ StartGenerating \/ WriteHeader \/ WriteMasterHeaders

SpecMain == InitMain /\ [][NextMain]_vars

\* the files a whole run over tree t writes, its listings in the order rev
RECURSIVE LoadTopFiles(_, _, _)
LoadTopFiles(af, t, files) ==
    IF files = <<>> THEN af
    ELSE LoadTopFiles(LoadTopFile(af, t, Head(files)), t, Tail(files))

RECURSIVE LoadSubDirs(_, _, _, _)
LoadSubDirs(af, t, dirs, rev) ==
    IF dirs = <<>> THEN af
    ELSE LoadSubDirs(LoadSubDir(af, t, Head(dirs), rev), t, Tail(dirs), rev)

RECURSIVE WriteModuleHeaders(_, _)
WriteModuleHeaders(w, items) ==
    IF items = <<>> THEN w
    ELSE WriteModuleHeaders(WriteModuleHeader(w, Head(items)[1], Head(items)[2]), Tail(items))

main(t, rev) ==
    LET af == LoadSubDirs(LoadTopFiles(<<>>, t, SortedPaths(GlobTop(t, rev))),
                          t, IterDirs(t, rev), rev)
    IN  generate_master_headers(Keys(af)) @@ WriteModuleHeaders(Empty, af)

----------------------------------------------------------------------------
(* Properties of a run of main.                                            *)

Range(seq) == {seq[k] : k \in 1..Len(seq)}

\* the module include lines of an umbrella header written by the run
Includes(umbrella) ==
    IF umbrella \in DOMAIN written THEN Range(written[umbrella].includes) ELSE {}

\* the module headers the run wrote
ModuleHeaders == {f \in DOMAIN written : "declarations" \in DOMAIN written[f]}

\* C1: the umbrellas agree with where the module headers were written: a
\* header under pdf/ is included by pdf.h and not by fitz.h, a header under
\* fitz/ is included by fitz.h, the enhanced header by neither, and every
\* include line names a header this run wrote.
UmbrellasMatchPlacement ==
    pc = "done" =>
        /\ \A inc \in Includes("include/mupdf/fitz.h") \cup Includes("include/mupdf/pdf.h") :
              ("include/" \o inc) \in ModuleHeaders
        /\ \A f \in ModuleHeaders :
              LET m == written[f].module
              IN  /\ f = "include/mupdf/pdf/" \o m \o ".h" =>
                        /\ ("mupdf/pdf/" \o m \o ".h") \in Includes("include/mupdf/pdf.h")
                        /\ ("mupdf/fitz/" \o m \o ".h") \notin Includes("include/mupdf/fitz.h")
                  /\ f = "include/mupdf/fitz/" \o m \o ".h" =>
                        ("mupdf/fitz/" \o m \o ".h") \in Includes("include/mupdf/fitz.h")
                  /\ m = "enhanced" =>
                        /\ ("mupdf/fitz/" \o m \o ".h") \notin Includes("include/mupdf/fitz.h")
                        /\ ("mupdf/pdf/" \o m \o ".h") \notin Includes("include/mupdf/pdf.h")

\* the module a source file belongs to
ModuleOf(q) == IF q[1] = "" THEN Stem(q[2]) ELSE q[1]

\* C2: every descriptor parsed from any source file of a module (M.rs and
\* the files under M/) is declared in the module's header.
FunctionsAccumulated ==
    pc = "done" =>
        \A q \in DOMAIN tree :
            \/ q[1] = "" /\ ModuleOf(q) \in {"mod", "safe_helpers"}
            \/ \A f \in Range(extract_ffi_functions(tree[q])) :
                  \E h \in ModuleHeaders :
                      /\ written[h].module = ModuleOf(q)
                      /\ f.declaration \in Range(written[h].declarations)

\* C5: the files written do not depend on the order in which the directory
\* listings come, also when a module has two descriptors of one name.
OutputIndependentOfListingOrder ==
    pc = "done" => written = main(tree, ~reversed)

\* a module whose two files declare fz_drop differently has been rendered
\* from listings that came in descending order
SameNameTwiceRendered ==
    /\ pc = "done"
    /\ reversed
    /\ {<<"misc", "a.rs">>, <<"misc", "b.rs">>} = DOMAIN tree
    /\ "include/mupdf/fitz/misc.h" \in DOMAIN written
    /\ written["include/mupdf/fitz/misc.h"].declarations
         = <<"void fz_drop(int32_t h);", "int32_t fz_drop(int32_t h);">>

\* the namespace the classifier of C9 gives a module
DocumentApi(module, funcs) ==
    IF module \in pdf_modules THEN TRUE
    ELSE IF module \in fitz_modules THEN FALSE
    ELSE \E k \in 1..Len(funcs) : StartsWith(funcs[k].name, "pdf_")

\* C9: the fixed sets decide first, the pdf_ prefix decides only for modules
\* in neither set, and the header's subdirectory and guard prefix follow.
ClassifiedBySetsFirst ==
    pc = "done" =>
        \A n \in 1..Len(all_functions) :
            LET m     == all_functions[n][1]
                space == IF DocumentApi(m, all_functions[n][2]) THEN "pdf" ELSE "fitz"
                f     == "include/mupdf/" \o space \o "/" \o m \o ".h"
            IN  m # "enhanced" =>
                    /\ f \in DOMAIN written
                    /\ written[f].guard = "MUPDF_" \o Upper(space) \o "_" \o Upper(m) \o "_H"

----------------------------------------------------------------------------
(* Properties of the extractor and the parser.                             *)

\* C3: the signature the extractor completes for an empty parameter list
\* with no return arrow, no brace and no terminator is parsed, and declared
\* as void <name>(void);
EmptySignatureParsed ==
    (pc \in {"scan", "done"} /\ rust_sig = "pub extern \"C\" fn reset()")
        => (func_info # None /\ func_info.declaration = "void reset(void);")

IsBlankOrComment(l) == Strip(l) = "" \/ StartsWith(Strip(l), "//")

IsDeclLine(l) ==
    Contains(Strip(l), "pub") /\ Contains(Strip(l), "extern") /\ Contains(Strip(l), "fn ")

\* C4: every descriptor comes from a declaration line that an export marker
\* precedes with only blank and comment lines in between.
OnlyMarkedExtracted ==
    pc \in {"scan", "done"} =>
        \A k \in 1..Len(functions) :
            \E d \in 1..Len(lines) :
                /\ IsDeclLine(lines[d])
                /\ FnMatch(Strip(lines[d])) = Match(functions[k].name)
                /\ \E m \in 1..(d - 1) :
                    /\ Strip(lines[m]) \in Markers
                    /\ \A j \in (m + 1)..(d - 1) : IsBlankOrComment(lines[j])

\* index of the parenthesis closing the one opened before k (0: there is none)
RECURSIVE MatchingParen(_, _, _)
MatchingParen(s, k, depth) ==
    IF k > Len(s) THEN 0
    ELSE IF Char(s, k) = "(" THEN MatchingParen(s, k + 1, depth + 1)
    ELSE IF Char(s, k) = ")"
    THEN (IF depth = 0 THEN k ELSE MatchingParen(s, k + 1, depth - 1))
    ELSE MatchingParen(s, k + 1, depth)

\* the signature has an opening parenthesis and the parenthesis matching it
WellFormed(s) == Find(s, "(", 1) # 0 /\ MatchingParen(s, Find(s, "(", 1) + 1, 0) # 0

\* the text between the first opening parenthesis and its matching one
OuterParams(s) ==
    Slice(s, Find(s, "(", 1) + 1, MatchingParen(s, Find(s, "(", 1) + 1, 0) - 1)

\* split on commas at bracket depth zero; the ">" of a return arrow closes nothing
RECURSIVE DepthZeroSplit(_, _, _, _, _)
DepthZeroSplit(s, k, depth, current, params) ==
    IF k > Len(s) THEN params
    ELSE
        LET char == Char(s, k)
        IN  IF Contains("<([", char)
            THEN DepthZeroSplit(s, k + 1, depth + 1, current \o char, params)
            ELSE IF Contains(">)]", char) /\ ~(char = ">" /\ Char(s, k - 1) = "-")
            THEN DepthZeroSplit(s, k + 1, depth - 1, current \o char, params)
            ELSE IF char = "," /\ depth = 0
            THEN DepthZeroSplit(s, k + 1, depth, "", Append(params, Strip(current)))
            ELSE DepthZeroSplit(s, k + 1, depth, current \o char, params)

\* index of the last return arrow of s (0: there is none)
LastArrow(s) ==
    LET arrows == {a \in 1..Len(s) : Slice(s, a, a + 1) = "->"}
    IN  IF arrows = {} THEN 0 ELSE CHOOSE a \in arrows : \A g \in arrows : g <= a

\* the text after the last return arrow, up to the brace or the terminator
TextAfterLastArrow(s) ==
    IF LastArrow(s) = 0 THEN "()"
    ELSE Strip(Slice(s, LastArrow(s) + 2, BraceOrSemi(s, LastArrow(s) + 2) - 1))

\* C10: one parameter entry per source parameter, in source order, each with
\* its own name and converted type, the parameter list being the text between
\* the first parenthesis and its matching one split at depth zero; the return
\* type is the text after the last return arrow.
ParamsSplitAtDepthZero ==
    (pc \in {"scan", "done"} /\ func_info # None /\ WellFormed(rust_sig)) =>
        /\ CParams(rust_sig)
             = ConvertParams(DepthZeroSplit(OuterParams(rust_sig) \o ",", 1, 0, "", <<>>))
        /\ func_info.return = convert_rust_type_to_c(TextAfterLastArrow(rust_sig))

----------------------------------------------------------------------------
(* Properties of the converter.                                            *)

\* C6: a path-qualified type converts as its last segment does, bare and
\* under one pointer qualifier: convert(Q P::X) = convert(Q X).
PathReducedFirst ==
    (pc # "start" /\ ty.path # "" /\ Len(ty.quals) <= 1)
        => c_type = convert_rust_type_to_c(RustType([ty EXCEPT !.path = ""]))

\* C7: the converter is idempotent: converting its own result changes nothing.
ConverterIdempotent == pc = "twice" => c_type2 = c_type

\* C8 as stated: a type whose name contains Handle converts to exactly
\* int32_t, whatever pointer qualifiers surround it.
HandleAlwaysInt32 ==
    (pc # "start" /\ Contains(ty.name, "Handle")) => c_type = "int32_t"

\* the C suffix each pointer qualifier leaves, innermost qualifier first
RECURSIVE PtrSuffix(_)
PtrSuffix(quals) ==
    IF Len(quals) = 0 THEN ""
    ELSE PtrSuffix(Tail(quals)) \o (IF Head(quals) = "*const " THEN " const *" ELSE " *")

\* C8 amended: the Handle-named type itself converts to int32_t, bare or
\* path-qualified; each surrounding pointer qualifier is kept as a C pointer
\* suffix on that int32_t.
HandleNameErased ==
    (pc # "start" /\ Contains(ty.name, "Handle"))
        => c_type = "int32_t" \o PtrSuffix(ty.quals)

\* a path-qualified Handle type under two pointer qualifiers has been converted
HandleUnderPointersConverted ==
    /\ pc = "once"
    /\ ty = [quals |-> <<"*const ", "*mut ">>, path |-> "std::ffi::", name |-> "FooHandle"]
    /\ c_type = "int32_t * const *"

====
